---- MODULE Spec2Model ----
(***************************************************************************)
(* Complex-tensor operators (operators.py) and the Fourier-optics          *)
(* propagation built on them (propagation.py).                             *)
(*                                                                         *)
(* Numbers.  A real number is an exact fraction <<n, d>> in lowest terms   *)
(* with d > 0; <<0, 0>> stands for any non-finite float (nan, inf).        *)
(* Tensors.  A tensor is [shape, at]: shape is the tuple of axis sizes and *)
(* at maps every 0-based index tuple of that shape to a real.  A complex   *)
(* tensor carries (real, imaginary) on its trailing axis.                  *)
(* Phases.   The argument of exp() is measured in the units (ln 2, pi/2):  *)
(* an element <<k, m>> of kernel_phase stands for k*ln 2 + i*m*pi/2, so    *)
(* that exp() of an integral multiple of it is the exact complex number    *)
(* 2^k * i^m.  Distances are integral in the model's axial unit, and the   *)
(* axial voxel size is an even number of these units.                      *)
(***************************************************************************)
EXTENDS Integers, Sequences, FiniteSets, TLC

(* ------------------------------ bounds --------------------------------- *)
MaxLayers == 3
MaxDefocus == 2
MaxOffset == 1
MaxDistance == 1

(* ------------------------------ reals ---------------------------------- *)
NonFinite == <<0, 0>>

Abs(n) == IF n < 0 THEN -n ELSE n

RECURSIVE GCD(_, _)
GCD(a, b) == IF b = 0 THEN a ELSE GCD(b, a % b)

Rat(n, d) ==
    IF d = 0 THEN NonFinite
    ELSE LET g == GCD(Abs(n), Abs(d))
             s == IF d < 0 THEN -1 ELSE 1
         IN  <<s * (IF n < 0 THEN -(Abs(n) \div g) ELSE n \div g), Abs(d) \div g>>

R(n) == <<n, 1>>

IsFinite(x) == x[2] # 0

(* sums and products cancel common factors before they multiply *)
RAdd(x, y) ==
    IF ~IsFinite(x) \/ ~IsFinite(y) THEN NonFinite
    ELSE LET g == GCD(x[2], y[2])
         IN  Rat(x[1] * (y[2] \div g) + y[1] * (x[2] \div g), (x[2] \div g) * y[2])

RNeg(x) == IF ~IsFinite(x) THEN NonFinite ELSE <<-x[1], x[2]>>

RSub(x, y) == RAdd(x, RNeg(y))

RMul(x, y) ==
    IF ~IsFinite(x) \/ ~IsFinite(y) THEN NonFinite
    ELSE IF x[1] = 0 \/ y[1] = 0 THEN R(0)
    ELSE LET g1 == GCD(Abs(x[1]), y[2])
             g2 == GCD(Abs(y[1]), x[2])
         IN  Rat((x[1] \div g1) * (y[1] \div g2), (x[2] \div g2) * (y[2] \div g1))

RDiv(x, y) ==
    IF ~IsFinite(x) \/ ~IsFinite(y) THEN NonFinite
    ELSE IF y[1] = 0 THEN NonFinite
    ELSE RMul(x, IF y[1] < 0 THEN <<-y[2], -y[1]>> ELSE <<y[2], y[1]>>)

RECURSIVE IPow(_, _)
IPow(b, e) == IF e = 0 THEN 1 ELSE b * IPow(b, e - 1)

(* b^e for an integer e of either sign *)
RPow(x, e) ==
    IF ~IsFinite(x) THEN NonFinite
    ELSE IF e >= 0 THEN Rat(IPow(x[1], e), IPow(x[2], e))
    ELSE Rat(IPow(x[2], -e), IPow(x[1], -e))

IsIntegral(x) == x[2] = 1

(* the square root of a fraction that is a perfect square *)
ISqrt(n) == IF \E k \in 0..n : k * k = n THEN CHOOSE k \in 0..n : k * k = n ELSE -1

RSqrt(x) ==
    IF ~IsFinite(x) \/ x[1] < 0 \/ ISqrt(x[1]) < 0 \/ ISqrt(x[2]) < 0 THEN NonFinite
    ELSE Rat(ISqrt(x[1]), ISqrt(x[2]))

(* torch.exp, torch.cos, torch.sin on the phase lattice *)
torch_exp(x) == IF IsFinite(x) /\ IsIntegral(x) THEN RPow(R(2), x[1]) ELSE NonFinite

torch_cos(x) ==
    IF IsFinite(x) /\ IsIntegral(x)
    THEN R(<<1, 0, -1, 0>>[(x[1] % 4) + 1]) ELSE NonFinite

torch_sin(x) ==
    IF IsFinite(x) /\ IsIntegral(x)
    THEN R(<<0, 1, 0, -1>>[(x[1] % 4) + 1]) ELSE NonFinite

(* torch.atan2 in quarter turns, for points on the coordinate axes *)
torch_atan2(y, x) ==
    IF ~IsFinite(x) \/ ~IsFinite(y) THEN NonFinite
    ELSE IF y[1] = 0 /\ x[1] >= 0 THEN R(0)
    ELSE IF y[1] = 0 THEN R(2)
    ELSE IF x[1] = 0 /\ y[1] > 0 THEN R(1)
    ELSE IF x[1] = 0 THEN R(-1)
    ELSE NonFinite

RECURSIVE SumOver(_, _)
SumOver(f, S) ==
    IF S = {} THEN R(0)
    ELSE LET x == CHOOSE x \in S : TRUE
         IN  RAdd(f[x], SumOver(f, S \ {x}))

SumFn(f) == SumOver(f, DOMAIN f)

(* ------------------------------ tensors -------------------------------- *)
RECURSIVE Box(_)
(* the 0-based index tuples of a shape *)
Box(shape) ==
    IF shape = <<>> THEN {<<>>}
    ELSE {<<a>> \o t : a \in 0..(Head(shape) - 1), t \in Box(Tail(shape))}

(* the function is compared with itself to have it tabulated once *)
Tensor(shape, F(_)) ==
    LET f == [i \in Box(shape) |-> F(i)]
    IN  [shape |-> shape, at |-> IF f = f THEN f ELSE f]

Rank(t) == Len(t.shape)

Last(t) == t.shape[Len(t.shape)]

Front(s) == SubSeq(s, 1, Len(s) - 1)

Error(kind) == [error |-> kind]

IsError(x) == "error" \in DOMAIN x

IsTensor(x) == "shape" \in DOMAIN x

(* index tuples *)
Put(i, pos, k) == [i EXCEPT ![pos] = k]

Insert(i, pos, k) ==
    [j \in 1..(Len(i) + 1) |-> IF j < pos THEN i[j] ELSE IF j = pos THEN k ELSE i[j - 1]]

Remove(i, pos) == [j \in 1..(Len(i) - 1) |-> IF j < pos THEN i[j] ELSE i[j + 1]]

(* t[..., c]: one entry of the trailing axis *)
Chan(t, c) ==
    IF IsError(t) THEN t
    ELSE IF c >= Last(t) THEN Error("IndexError")
    ELSE Tensor(Front(t.shape), LAMBDA i : t.at[Append(i, c)])

(* t[:, .., k, .., :] with k at 1-based axis position pos *)
Select(t, pos, k) ==
    Tensor(Remove(t.shape, pos), LAMBDA i : t.at[Insert(i, pos, k)])

(* broadcasting of two shapes, aligned at the trailing axis *)
Max(a, b) == IF a > b THEN a ELSE b

PadLeft(s, n) == [k \in 1..n |-> IF k <= n - Len(s) THEN 1 ELSE s[k - (n - Len(s))]]

Broadcastable(s1, s2) ==
    LET n == Max(Len(s1), Len(s2))
    IN  \A k \in 1..n : PadLeft(s1, n)[k] = PadLeft(s2, n)[k]
                        \/ PadLeft(s1, n)[k] = 1 \/ PadLeft(s2, n)[k] = 1

BroadcastShape(s1, s2) ==
    LET n == Max(Len(s1), Len(s2))
    IN  [k \in 1..n |-> Max(PadLeft(s1, n)[k], PadLeft(s2, n)[k])]

BIndex(i, s) == [k \in 1..Len(s) |-> IF s[k] = 1 THEN 0 ELSE i[k + Len(i) - Len(s)]]

(* an elementwise binary operation on two real tensors *)
Zip(a, b, Op(_, _)) ==
    IF IsError(a) THEN a
    ELSE IF IsError(b) THEN b
    ELSE IF ~Broadcastable(a.shape, b.shape) THEN Error("RuntimeError")
    ELSE Tensor(BroadcastShape(a.shape, b.shape),
                LAMBDA i : Op(a.at[BIndex(i, a.shape)], b.at[BIndex(i, b.shape)]))

Map(a, Op(_)) ==
    IF IsError(a) THEN a ELSE Tensor(a.shape, LAMBDA i : Op(a.at[i]))

ScalarMul(c, t) == Map(t, LAMBDA x : RMul(R(c), x))

(* torch.stack((a, b), dim=len(a.shape)): a new trailing axis of size 2 *)
Stack2(a, b) ==
    IF IsError(a) THEN a
    ELSE IF IsError(b) THEN b
    ELSE IF a.shape # b.shape THEN Error("RuntimeError")
    ELSE Tensor(Append(a.shape, 2),
                LAMBDA i : IF i[Len(i)] = 0 THEN a.at[Front(i)] ELSE b.at[Front(i)])

(* (t**2).sum(-1) *)
SumSq(t) ==
    Tensor(Front(t.shape),
           LAMBDA i : SumFn([c \in 0..(Last(t) - 1) |->
                                RMul(t.at[Append(i, c)], t.at[Append(i, c)])]))

(* t.sum(pos - 1): the sum over the axis at 1-based position pos *)
SumAxis(t, pos) ==
    IF IsError(t) THEN t
    ELSE Tensor(Remove(t.shape, pos),
                LAMBDA i : SumFn([n \in 0..(t.shape[pos] - 1) |-> t.at[Insert(i, pos, n)]]))

(* t.sum(0) *)
Sum0(t) == SumAxis(t, 1)

(* t.unsqueeze(pos - 1): a new axis of size 1 at 1-based position pos *)
Unsqueeze(t, pos) ==
    Tensor(Insert(t.shape, pos, 1), LAMBDA i : t.at[Remove(i, pos)])

(* t.repeat(reps) *)
Repeat(t, reps) ==
    Tensor([k \in 1..Rank(t) |-> t.shape[k] * reps[k]],
           LAMBDA i : t.at[[k \in 1..Rank(t) |-> i[k] % t.shape[k]]])

(* t.permute(perm), perm 0-based as in the source *)
Permute(t, perm) ==
    Tensor([j \in 1..Rank(t) |-> t.shape[perm[j] + 1]],
           LAMBDA i : t.at[[k \in 1..Rank(t) |->
                               i[CHOOSE j \in 1..Rank(t) : perm[j] + 1 = k]]])

(* torch.roll(t, shift, dims=axis), axis 0-based *)
torch_roll(t, shift, axis) ==
    Tensor(t.shape,
           LAMBDA i : t.at[Put(i, axis + 1, (i[axis + 1] - shift) % t.shape[axis + 1])])

(* --------------------- discrete Fourier transform ---------------------- *)
(* component c of (a + ib) * i^q *)
RotC(a, b, q, c) ==
    LET r == q % 4
    IN  IF c = 0 THEN (IF r = 0 THEN a ELSE IF r = 1 THEN RNeg(b)
                       ELSE IF r = 2 THEN RNeg(a) ELSE b)
        ELSE (IF r = 0 THEN b ELSE IF r = 1 THEN a
              ELSE IF r = 2 THEN RNeg(b) ELSE RNeg(a))

RECURSIVE Prod(_)
Prod(s) == IF s = <<>> THEN 1 ELSE Head(s) * Prod(Tail(s))

RECURSIVE Dot(_, _, _)
(* quarter turns of exp(2 pi i * sum_k u[k]*v[k]/n[k]) *)
Dot(u, v, n) ==
    IF u = <<>> THEN 0
    ELSE (4 \div Head(n)) * Head(u) * Head(v) + Dot(Tail(u), Tail(v), Tail(n))

(* the transform over the signal_ndim axes before the trailing one;   *)
(* sign = -1 forward (unnormalised), sign = +1 inverse (divided by N) *)
Dft(t, signal_ndim, sign) ==
    IF IsError(t) THEN t
    ELSE IF Last(t) # 2 \/ Rank(t) < signal_ndim + 1 THEN Error("RuntimeError")
    ELSE LET r    == Rank(t)
             lo   == r - signal_ndim
             sig  == SubSeq(t.shape, lo, r - 1)
             src(i, J, c) == [k \in 1..r |-> IF k = r THEN c
                                             ELSE IF k >= lo THEN J[k - lo + 1] ELSE i[k]]
             norm == IF sign > 0 THEN Rat(1, Prod(sig)) ELSE R(1)
         IN  IF \E k \in 1..signal_ndim : sig[k] \notin {1, 2, 4}
             THEN Error("RuntimeError")
             ELSE Tensor(t.shape,
                    LAMBDA i : RMul(norm,
                       SumFn([J \in Box(sig) |->
                            RotC(t.at[src(i, J, 0)], t.at[src(i, J, 1)],
                                 sign * Dot(SubSeq(i, lo, r - 1), J, sig), i[r])])))

torch_fft(t, signal_ndim) == Dft(t, signal_ndim, -1)

torch_ifft(t, signal_ndim) == Dft(t, signal_ndim, 1)

(* ----------------------- operators.py: primitives ---------------------- *)
(* Each primitive maps tensor values to the tensor it returns, or to the   *)
(* error that aborts the call.  An error in an argument is passed on.      *)

r2c(real_tensor) ==
    IF IsError(real_tensor) THEN real_tensor
    ELSE Tensor(Append(real_tensor.shape, 2),
                LAMBDA i : IF i[Len(i)] = 0 THEN real_tensor.at[Front(i)] ELSE R(0))

real(complex_tensor) == Chan(complex_tensor, 0)

imag(complex_tensor) == Chan(complex_tensor, 1)

conj(complex_tensor) ==
    IF IsError(complex_tensor) THEN complex_tensor
    ELSE IF Last(complex_tensor) < 2 THEN Error("IndexError")
    ELSE Tensor(complex_tensor.shape,
                LAMBDA i : IF i[Len(i)] = 1 THEN RMul(R(-1), complex_tensor.at[i])
                           ELSE complex_tensor.at[i])

angle(complex_tensor) ==
    Zip(Chan(complex_tensor, 1), Chan(complex_tensor, 0), torch_atan2)

(* x**a for an integer exponent a *)
exponentiate(complex_tensor, a) ==
    IF IsError(complex_tensor) THEN complex_tensor
    ELSE IF IsError(angle(complex_tensor)) THEN angle(complex_tensor)
    ELSE LET amplitude == Map(SumSq(complex_tensor), LAMBDA x : RPow(RSqrt(x), a))
             phase     == Map(angle(complex_tensor), LAMBDA x : RMul(x, R(a)))
         IN  Tensor(complex_tensor.shape,
                LAMBDA i :
                   IF i[Len(i)] = 0
                   THEN RMul(amplitude.at[Front(i)], torch_cos(phase.at[Front(i)]))
                   ELSE IF i[Len(i)] = 1
                   THEN RMul(amplitude.at[Front(i)], torch_sin(phase.at[Front(i)]))
                   ELSE complex_tensor.at[i])

exp(complex_tensor) ==
    IF IsError(complex_tensor) THEN complex_tensor
    ELSE IF Last(complex_tensor) < 2 THEN Error("IndexError")
    ELSE LET amplitude == Map(Chan(complex_tensor, 0), torch_exp)
         IN  Tensor(complex_tensor.shape,
                LAMBDA i :
                   IF i[Len(i)] = 0
                   THEN RMul(amplitude.at[Front(i)],
                             torch_cos(complex_tensor.at[Append(Front(i), 1)]))
                   ELSE IF i[Len(i)] = 1
                   THEN RMul(amplitude.at[Front(i)],
                             torch_sin(complex_tensor.at[Append(Front(i), 1)]))
                   ELSE complex_tensor.at[i])

multiply_complex(complex_tensor1, complex_tensor2) ==
    LET re1 == Chan(complex_tensor1, 0)
        im1 == Chan(complex_tensor1, 1)
        re2 == Chan(complex_tensor2, 0)
        im2 == Chan(complex_tensor2, 1)
        complex_tensor_mul_real == Zip(Zip(re1, re2, RMul), Zip(im1, im2, RMul), RSub)
        complex_tensor_mul_imag == Zip(Zip(re1, im2, RMul), Zip(im1, re2, RMul), RAdd)
    IN  Stack2(complex_tensor_mul_real, complex_tensor_mul_imag)

(* a division whose numerator takes the divisor itself, not its conjugate *)
division_complex_unconjugated(complex_tensor1, complex_tensor2) ==
    LET denominator == SumSq(complex_tensor2)
        product     == multiply_complex(complex_tensor1, complex_tensor2)
    IN  Stack2(Zip(Chan(product, 0), denominator, RDiv),
               Zip(Chan(product, 1), denominator, RDiv))

division_complex(complex_tensor1, complex_tensor2) ==
    IF IsError(complex_tensor1) THEN complex_tensor1
    ELSE IF IsError(complex_tensor2) THEN complex_tensor2
    ELSE
    LET re1 == Chan(complex_tensor1, 0)
        im1 == Chan(complex_tensor1, 1)
        re2 == Chan(complex_tensor2, 0)
        im2 == Chan(complex_tensor2, 1)
        denominator == SumSq(complex_tensor2)
        complex_tensor_mul_real ==
            Zip(Zip(Zip(re1, re2, RMul), Zip(im1, im2, RMul), RAdd), denominator, RDiv)
        complex_tensor_mul_imag ==
            Zip(Zip(Zip(im1, re2, RMul), Zip(re1, im2, RMul), RSub), denominator, RDiv)
    IN  Stack2(complex_tensor_mul_real, complex_tensor_mul_imag)

abs(complex_tensor) ==
    IF IsError(complex_tensor) THEN complex_tensor
    ELSE IF Last(complex_tensor) # 2 THEN Error("AssertionError")
    ELSE Map(SumSq(complex_tensor), RSqrt)

convolve_kernel(tensor_in, kernel, n_dim, flag_inplace) ==
    IF flag_inplace
    THEN torch_ifft(multiply_complex(torch_fft(tensor_in, n_dim), kernel), n_dim)
    ELSE LET output == torch_fft(tensor_in, n_dim)
         IN  torch_ifft(multiply_complex(output, kernel), n_dim)

RECURSIVE fftshift(_, _)
fftshift(tensor_in, axes) ==
    IF axes = <<>> THEN tensor_in
    ELSE fftshift(torch_roll(tensor_in, tensor_in.shape[Head(axes) + 1] \div 2, Head(axes)),
                  Tail(axes))

RECURSIVE ifftshift(_, _)
ifftshift(tensor_in, axes) ==
    IF axes = <<>> THEN tensor_in
    ELSE ifftshift(torch_roll(tensor_in, -1 * (tensor_in.shape[Head(axes) + 1] \div 2),
                              Head(axes)),
                   Tail(axes))

(* ------------------ operators.py: differentiable operators ------------- *)
ComplexConj_forward(tensor_in) == conj(tensor_in)

ComplexMul_forward(input1, input2) ==
    IF Last(input1) # 2 \/ Last(input2) # 2 THEN Error("AssertionError")
    ELSE multiply_complex(input1, input2)

(* the backward rule of multiply without the sum over the batch axis *)
ComplexMul_backward_unreduced(input1, input2, grad_output) ==
    <<multiply_complex(conj(input2), grad_output),
      multiply_complex(conj(input1), grad_output)>>

(* the gradients <<grad_input1, grad_input2>> *)
ComplexMul_backward(input1, input2, grad_output) ==
    LET grad_input1 == multiply_complex(conj(input2), grad_output)
        grad_input2 == multiply_complex(conj(input1), grad_output)
    IN  IF Rank(input1) > Rank(input2) THEN <<grad_input1, Sum0(grad_input2)>>
        ELSE IF Rank(input1) < Rank(input2) THEN <<Sum0(grad_input1), grad_input2>>
        ELSE <<grad_input1, grad_input2>>

ComplexDiv_forward(input1, input2) ==
    IF Last(input1) # 2 \/ Last(input2) # 2 THEN Error("AssertionError")
    ELSE division_complex(input1, input2)

ComplexDiv_backward(input1, input2, grad_output) ==
    LET denominator == SumSq(input2)
        scaled      == Tensor(input2.shape,
                          LAMBDA i : IF i[Len(i)] <= 1
                                     THEN RDiv(input2.at[i], denominator.at[Front(i)])
                                     ELSE input2.at[i])
        grad_input1 == multiply_complex(scaled, grad_output)
        quotient    == conj(division_complex(input1, multiply_complex(input2, input2)))
        grad_input2 == multiply_complex(Map(quotient, LAMBDA x : RMul(R(-1), x)),
                                        grad_output)
    IN  IF Rank(input1) > Rank(input2) THEN <<grad_input1, Sum0(grad_input2)>>
        ELSE IF Rank(input1) < Rank(input2) THEN <<Sum0(grad_input1), grad_input2>>
        ELSE <<grad_input1, grad_input2>>

ComplexAbs_forward(tensor_in) ==
    IF Last(tensor_in) # 2 THEN Error("AssertionError")
    ELSE Map(SumSq(tensor_in), RSqrt)

ComplexAbs2_forward(tensor_in) ==
    IF Last(tensor_in) # 2 THEN Error("AssertionError")
    ELSE Chan(multiply_complex(conj(tensor_in), tensor_in), 0)

ComplexExp_forward(tensor_in) ==
    IF Last(tensor_in) # 2 THEN Error("AssertionError")
    ELSE exp(tensor_in)

ComplexConv_forward(tensor_in, kernel_in, n_dim, flag_inplace) ==
    convolve_kernel(tensor_in, kernel_in, n_dim, flag_inplace)

(* ------------------------------ storage -------------------------------- *)
(* A store M is [heap, log]: heap is the sequence of allocated tensors, a  *)
(* tensor's address its position; log is the trace of the steps taken.     *)
(* A reference [a, sel] names the tensor at address a (sel = <<>>) or the  *)
(* view of it that fixes axis sel[1] (1-based) at index sel[2].  Indexing  *)
(* yields a view of the same storage; clone, stack, arithmetic and the     *)
(* Fourier transforms allocate.  An operation returns [m, r]: the store    *)
(* it leaves and the reference it returns.                                 *)

Ref(a) == [a |-> a, sel |-> <<>>]

View(r, pos, k) == [a |-> r.a, sel |-> <<pos, k>>]

NoRef == Ref(0)

Event(op, arg) == [op |-> op, arg |-> arg]

Log(M, op, arg) == [M EXCEPT !.log = Append(@, Event(op, arg))]

Load(M, r) ==
    IF r.sel = <<>> THEN M.heap[r.a] ELSE Select(M.heap[r.a], r.sel[1], r.sel[2])

(* the index of a view, -1 for a whole tensor *)
ViewIndex(r) == IF r.sel = <<>> THEN -1 ELSE r.sel[2]

Alloc(M, v) ==
    [m |-> [M EXCEPT !.heap = Append(@, v)], r |-> Ref(Len(M.heap) + 1)]

(* an in-place write of the values v through the reference r *)
Store(M, r, v) ==
    LET old == M.heap[r.a]
        new == IF r.sel = <<>> THEN v
               ELSE Tensor(old.shape,
                           LAMBDA i : IF i[r.sel[1]] = r.sel[2]
                                      THEN v.at[Remove(i, r.sel[1])]
                                      ELSE old.at[i])
    IN  Log([M EXCEPT !.heap[r.a] = new], "store", r.a)

clone(M, r) == Alloc(M, Load(M, r))

(* x is what one operation returned; Then(x, F) is what F returns when it *)
(* runs on the store x left, with the reference x returned                *)
Then(x, F(_, _)) == CHOOSE y \in {F(v.m, v.r) : v \in {x}} : TRUE

(* conj that negates the imaginary channel of its argument's own storage *)
op_conj_inplace(M, r) ==
    [m |-> Store(Log(M, "conj", ViewIndex(r)), r, conj(Load(M, r))), r |-> r]

(* operators.py as called from propagation.py (op.conj, op.exp, ...) *)
op_conj(M, r) ==
    Then(clone(Log(M, "conj", ViewIndex(r)), r),
         LAMBDA M1, c : [m |-> Store(M1, c, conj(Load(M1, c))), r |-> c])

op_exp(M, r) ==
    Then(clone(Log(M, "exp", ViewIndex(r)), r),
         LAMBDA M1, c : [m |-> Store(M1, c, exp(Load(M, r))), r |-> c])

op_multiply_complex(M, r1, r2) ==
    Alloc(Log(M, "multiply", ViewIndex(r1)), multiply_complex(Load(M, r1), Load(M, r2)))

(* the number of signals one transform call transforms *)
Batch(t, signal_ndim) == Prod(SubSeq(t.shape, 1, Rank(t) - 1 - signal_ndim))

new_fft(M, r, signal_ndim) ==
    Alloc(Log(M, "fft", Batch(Load(M, r), signal_ndim)), torch_fft(Load(M, r), signal_ndim))

new_ifft(M, r, signal_ndim) ==
    Alloc(Log(M, "ifft", Batch(Load(M, r), signal_ndim)), torch_ifft(Load(M, r), signal_ndim))

(* c * tensor *)
new_scaled(M, c, r) == Alloc(M, ScalarMul(c, Load(M, r)))

op_convolve_kernel(M, tensor_in, kernel, n_dim, flag_inplace) ==
    Then(Then(new_fft(M, tensor_in, n_dim),
              LAMBDA M1, output : op_multiply_complex(M1, output, kernel)),
         LAMBDA M2, output : new_ifft(M2, output, n_dim))

RECURSIVE RollAll(_, _, _)
(* for axis in axes: ret = torch.roll(ret, sign * (ret.shape[axis] // 2), axis) *)
RollAll(x, axes, sign) ==
    IF axes = <<>> THEN x
    ELSE RollAll(Then(x, LAMBDA M, ret :
                        Alloc(M, torch_roll(Load(M, ret),
                                            sign * (Load(M, ret).shape[Head(axes) + 1] \div 2),
                                            Head(axes)))),
                 Tail(axes), sign)

op_fftshift(M, tensor_in, axes) == RollAll(clone(M, tensor_in), axes, 1)

op_ifftshift(M, tensor_in, axes) == RollAll(clone(M, tensor_in), axes, -1)

(* unsqueeze(-1) is a view of real_tensor; its clone is zeroed in place *)
op_r2c(M, real_tensor) ==
    Then(Alloc(M, Unsqueeze(Load(M, real_tensor), Rank(Load(M, real_tensor)) + 1)),
         LAMBDA M1, imaginary_tensor :
            Alloc(Store(M1, imaginary_tensor,
                        Map(Load(M1, imaginary_tensor), LAMBDA x : R(0))),
                  r2c(Load(M, real_tensor))))

(* the autograd functions' apply, forward pass *)
complex_mul(M, input1, input2) ==
    op_multiply_complex(Log(M, "complex_mul", ViewIndex(input2)), input1, input2)

complex_exp(M, tensor_in) == op_exp(M, tensor_in)

complex_conj(M, tensor_in) == op_conj(M, tensor_in)

complex_conv(M, tensor_in, kernel_in, n_dim, flag_inplace) ==
    op_convolve_kernel(M, tensor_in, kernel_in, n_dim, flag_inplace)

(* --------------------------- propagation.py ---------------------------- *)
(* self.kernel_phase: the first tensor allocated, by the constructor *)
kernel_phase == Ref(1)

(* the offsets of a defocus list, a 1-D tensor of integral reals *)
Count(M, defocus_list) == Load(M, defocus_list).shape[1]

Offset(M, defocus_list, defocus_idx) == Load(M, defocus_list).at[<<defocus_idx>>][1]

(* propagation that does not conjugate the kernel of a negative distance *)
SingleSlicePropagation_forward_unconjugated(M, field_in, propagation_distance) ==
    IF propagation_distance = 0
    THEN [m |-> Log(M, "propagate", propagation_distance), r |-> field_in]
    ELSE Then(Then(new_scaled(Log(M, "propagate", propagation_distance),
                              Abs(propagation_distance), kernel_phase),
                   complex_exp),
              LAMBDA M1, k : complex_conv(M1, field_in, k, 2, FALSE))

SingleSlicePropagation_forward(M, field_in, propagation_distance) ==
    IF propagation_distance = 0
    THEN [m |-> Log(M, "propagate", propagation_distance), r |-> field_in]
    ELSE LET kernel == Then(new_scaled(Log(M, "propagate", propagation_distance),
                                       Abs(propagation_distance), kernel_phase),
                            complex_exp)
         IN  Then(IF propagation_distance > 0 THEN kernel ELSE Then(kernel, complex_conj),
                  LAMBDA M1, k : complex_conv(M1, field_in, k, 2, FALSE))

(* (shape[2]/2. - 1/2.) * voxel_size[2], exact because voxel_size[2] is even *)
distance_to_center(layers, spacing) == ((layers - 1) * spacing) \div 2

RECURSIVE MultisliceLoop(_, _, _, _, _)
(* for layer_idx in range(1, self.shape[2]); x.r is field *)
MultisliceLoop(x, obj, layer_idx, layers, spacing) ==
    IF layer_idx >= layers THEN x
    ELSE LET mul == Then(x, LAMBDA M, field : complex_mul(M, field, View(obj, 3, layer_idx)))
         IN  MultisliceLoop(
                 IF layer_idx < layers - 1
                 THEN Then(mul, LAMBDA M, field :
                              SingleSlicePropagation_forward(M, field, spacing))
                 ELSE Then(mul, LAMBDA M, field :
                              SingleSlicePropagation_forward(M, field,
                                  -1 * distance_to_center(layers, spacing))),
                 obj, layer_idx + 1, layers, spacing)

(* obj has shape (H, W, layers, 2); field_in = NoRef stands for None *)
MultislicePropagation_forward(M, layers, spacing, obj, field_in) ==
    MultisliceLoop(
        Then(IF field_in = NoRef THEN [m |-> M, r |-> View(obj, 3, 0)]
             ELSE complex_mul(M, field_in, View(obj, 3, 0)),
             LAMBDA M1, field : SingleSlicePropagation_forward(M1, field, spacing)),
        obj, 1, layers, spacing)

(* the forward kernel with the convention turned round: conjugated for a *)
(* positive offset                                                      *)
DefocusForwardKernel_positive(M, kernel, offset) ==
    LET kernel_temp == Then(new_scaled(M, Abs(offset), kernel), op_exp)
    IN  IF offset > 0 THEN Then(kernel_temp, op_conj) ELSE kernel_temp

(* kernel_temp of one offset: exp(|offset| * kernel), conjugated or not *)
DefocusForwardKernel(M, kernel, offset) ==
    LET kernel_temp == Then(new_scaled(M, Abs(offset), kernel), op_exp)
    IN  IF offset > 0 THEN kernel_temp ELSE Then(kernel_temp, op_conj)

RECURSIVE DefocusForwardLoop(_, _, _, _, _)
(* for defocus_idx in range(len(defocus_list)) *)
DefocusForwardLoop(M, field, kernel, defocus_list, defocus_idx) ==
    IF defocus_idx >= Count(M, defocus_list) THEN M
    ELSE DefocusForwardLoop(
            Then(Then(DefocusForwardKernel(Log(M, "iter", defocus_idx), kernel,
                                           Offset(M, defocus_list, defocus_idx)),
                      LAMBDA M1, kernel_temp :
                         op_multiply_complex(M1, View(field, 1, defocus_idx), kernel_temp)),
                 LAMBDA M2, product :
                    Store(M2, View(field, 1, defocus_idx), Load(M2, product))),
            field, kernel, defocus_list, defocus_idx + 1)

(* a forward pass that transforms the field a second time before it stacks it *)
Defocus_forward_retransformed(M, field, kernel, defocus_list) ==
    Then(new_fft(M, field, 2),
         LAMBDA M0, unused :
           Then(new_fft(M0, field, 2),
                LAMBDA M1, transformed :
                  Then(Alloc(M1, Permute(Repeat(Unsqueeze(Load(M1, transformed), 3),
                                                <<1, 1, Count(M, defocus_list), 1>>),
                                         <<2, 0, 1, 3>>)),
                       LAMBDA M2, stack :
                         Then([m |-> DefocusForwardLoop(M2, stack, kernel, defocus_list, 0),
                               r |-> stack],
                              LAMBDA M3, filled :
                                Then(Alloc(Log(M3, "ifft", Batch(Load(M3, filled), 2)),
                                           Permute(torch_ifft(Load(M3, filled), 2),
                                                   <<1, 2, 0, 3>>)),
                                     LAMBDA M4, out :
                                       [m |-> M4, r |-> out,
                                        ctx |-> [kernel |-> kernel, field |-> transformed,
                                                 defocus_list |-> defocus_list]])))))

(* returns [m, r, ctx]: ctx is what save_for_backward keeps.  The stack of   *)
(* repeated transforms is fresh storage, held in its permuted layout; the    *)
(* returned field is the permuted view of the fresh inverse transform.       *)
Defocus_forward(M, field, kernel, defocus_list) ==
    Then(new_fft(M, field, 2),
         LAMBDA M1, transformed :
           Then(Alloc(M1, Permute(Repeat(Unsqueeze(Load(M1, transformed), 3),
                                         <<1, 1, Count(M, defocus_list), 1>>),
                                  <<2, 0, 1, 3>>)),
                LAMBDA M2, stack :
                  Then([m |-> DefocusForwardLoop(M2, stack, kernel, defocus_list, 0),
                        r |-> stack],
                       LAMBDA M3, filled :
                         Then(Alloc(Log(M3, "ifft", Batch(Load(M3, filled), 2)),
                                    Permute(torch_ifft(Load(M3, filled), 2), <<1, 2, 0, 3>>)),
                              LAMBDA M4, out :
                                [m |-> M4, r |-> out,
                                 ctx |-> [kernel |-> kernel, field |-> transformed,
                                          defocus_list |-> defocus_list]]))))

(* x * phase for a phase tensor: every entry of the product is the pair *)
(* <<coefficient of ln 2, coefficient of pi/2>>                          *)
multiply_phase(x, phase) ==
    Tensor(x.shape,
           LAMBDA i : LET n == Len(i)
                          a == x.at[Put(i, n, 0)]
                          b == x.at[Put(i, n, 1)]
                          c == phase.at[Put(i, n, 0)]
                          d == phase.at[Put(i, n, 1)]
                      IN  IF i[n] = 0 THEN <<RMul(a, c), RNeg(RMul(b, d))>>
                          ELSE <<RMul(b, c), RMul(a, d)>>)

(* y.sum((0,1))[0] of a tensor of such pairs, as a 0-D tensor *)
SumSpatialReal(y) ==
    LET idx == {i \in DOMAIN y.at : i[Len(i)] = 0}
    IN  Tensor(<<>>, LAMBDA e : <<SumFn([i \in idx |-> y.at[i][1]]),
                                  SumFn([i \in idx |-> y.at[i][2]])>>)

(* the backward kernel with the forward pass's test: conjugated for an *)
(* offset that is not positive                                        *)
DefocusBackwardKernel_as_forward(M, kernel, offset) ==
    LET kernel_temp == Then(new_scaled(M, Abs(offset), kernel), op_exp)
    IN  IF offset > 0 THEN kernel_temp ELSE Then(kernel_temp, op_conj)

(* kernel_temp of one offset in the backward pass *)
DefocusBackwardKernel(M, kernel, offset) ==
    LET kernel_temp == Then(new_scaled(M, Abs(offset), kernel), op_exp)
    IN  IF offset < 0 THEN kernel_temp ELSE Then(kernel_temp, op_conj)

(* grad_defocus_list[defocus_idx] = multiply_complex(multiply_complex(         *)
(*     grad_output[defocus_idx], conj(field)), conj(kernel)).sum((0,1))[0]     *)
OffsetGradient(M, ctx, grad_defocus_list, grad_output, defocus_idx) ==
    Then(Then(Then(Then(op_conj(M, ctx.field),
                        LAMBDA M1, cfield :
                           op_multiply_complex(M1, View(grad_output, 1, defocus_idx), cfield)),
                   LAMBDA M2, inner :
                      [m |-> op_conj(M2, ctx.kernel), r |-> inner]),
              LAMBDA ck, inner :
                 Alloc(Log(ck.m, "multiply", -1),
                       multiply_phase(Load(ck.m, inner), Load(ck.m, ck.r)))),
         LAMBDA M3, outer :
            Store(M3, View(grad_defocus_list, 1, defocus_idx),
                  SumSpatialReal(Load(M3, outer))))

RECURSIVE DefocusBackwardLoop(_, _, _, _, _)
DefocusBackwardLoop(M, ctx, grad_defocus_list, grad_output, defocus_idx) ==
    IF defocus_idx >= Count(M, ctx.defocus_list) THEN M
    ELSE DefocusBackwardLoop(
            OffsetGradient(
                Then(Then(DefocusBackwardKernel(Log(M, "iter", defocus_idx), ctx.kernel,
                                                Offset(M, ctx.defocus_list, defocus_idx)),
                          LAMBDA M1, kernel_temp :
                             op_multiply_complex(M1, View(grad_output, 1, defocus_idx),
                                                 kernel_temp)),
                     LAMBDA M2, product :
                        Store(M2, View(grad_output, 1, defocus_idx), Load(M2, product))),
                ctx, grad_defocus_list, grad_output, defocus_idx),
            ctx, grad_defocus_list, grad_output, defocus_idx + 1)

(* returns [m, r, grad_defocus_list]; the gradient of kernel is None *)
Defocus_backward(M, ctx, grad_output) ==
    Then(clone(M, ctx.defocus_list),
         LAMBDA M1, grad_defocus_list :
           Then(Alloc(Log(M1, "fft", Count(M, ctx.defocus_list)),
                      torch_fft(Permute(Load(M1, grad_output), <<2, 0, 1, 3>>), 2)),
                LAMBDA M2, transformed :
                  Then([m |-> DefocusBackwardLoop(M2, ctx, grad_defocus_list, transformed, 0),
                        r |-> transformed],
                       LAMBDA M3, filled :
                         Then(Alloc(Log(M3, "ifft", Batch(Load(M3, filled), 2)),
                                    Permute(torch_ifft(Load(M3, filled), 2), <<1, 2, 0, 3>>)),
                              LAMBDA M4, inverse :
                                Then(Then(Alloc(M4, SumAxis(Load(M4, inverse), 3)),
                                          LAMBDA M5, temp_f :
                                             Alloc(M5, SumAxis(Load(M5, inverse), 3))),
                                     LAMBDA M6, summed :
                                       [m |-> M6, r |-> summed,
                                        grad_defocus_list |-> grad_defocus_list])))))

(* ------------------------------ inputs --------------------------------- *)
FieldShape == <<2, 2>>

ComplexShape == Append(FieldShape, 2)

(* generate_angular_spectrum_kernel: a complex tensor of the field's shape. *)
(* The phase at a frequency depends on kx^2 + ky^2 only; it is imaginary    *)
(* for a propagating wave and may carry a real part otherwise.              *)
PhaseProfiles ==
    { <<a, b, c>> : a \in {<<0, 1>>}, b \in {<<0, 2>>}, c \in {<<0, 3>>, <<-1, 0>>} }

generate_angular_spectrum_kernel ==
    { Tensor(ComplexShape, LAMBDA i : R(p[i[1] + i[2] + 1][i[3] + 1])) : p \in PhaseProfiles }

FieldPatterns == {"ramp", "delta", "plane"}

FieldOf(pattern) ==
    Tensor(ComplexShape,
           LAMBDA i : IF pattern = "ramp" THEN R(i[1] + 2 * i[2] + 3 * i[3] - 2)
                      ELSE IF pattern = "delta"
                      THEN R(IF i = <<0, 0, 0>> THEN 1 ELSE 0)
                      ELSE R(IF i[3] = 0 THEN 1 ELSE 0))

Fields == { FieldOf(p) : p \in FieldPatterns }

(* transmission masks: the identity 1+0i, and a mask that shifts the phase *)
(* of one pixel by a quarter turn and absorbs another                      *)
LayerPatterns == {"identity", "mask"}

LayerAt(pattern, i, j, c) ==
    IF pattern = "identity" THEN (IF c = 0 THEN 1 ELSE 0)
    ELSE IF <<i, j>> = <<0, 1>> THEN (IF c = 0 THEN 0 ELSE 1)
    ELSE IF <<i, j>> = <<1, 1>> THEN 0
    ELSE (IF c = 0 THEN 1 ELSE 0)

(* an object volume of shape (H, W, layers, 2) *)
ObjOf(patterns) ==
    Tensor(<<FieldShape[1], FieldShape[2], Len(patterns), 2>>,
           LAMBDA i : R(LayerAt(patterns[i[3] + 1], i[1], i[2], i[4])))

Objs(layers) == { ObjOf(p) : p \in [1..layers -> LayerPatterns] }

IdentityObj(layers) == ObjOf([l \in 1..layers |-> "identity"])

Spacings == {2, 4}

Distances == (-MaxDistance)..MaxDistance

DefocusLists ==
    UNION { { Tensor(<<n>>, LAMBDA i : R(o[i[1] + 1])) :
                o \in [1..n -> (-MaxOffset)..MaxOffset] } : n \in 1..MaxDefocus }

(* incoming gradients of shape (H, W, n, 2) *)
GradOutputs(n) ==
    { Tensor(<<FieldShape[1], FieldShape[2], n, 2>>,
             LAMBDA i : R(IF q = 0 THEN (IF i[4] = 0 THEN 1 ELSE 0)
                          ELSE i[1] - i[2] + i[3] + 2 * i[4])) : q \in {0, 1} }

RealTensors == { Tensor(FieldShape, LAMBDA i : R(q + i[1] - 2 * i[2])) : q \in {0, 1} }

AxesLists == {<<0>>, <<1>>, <<0, 1>>}

(* ---------------------------- state machine ---------------------------- *)
(* One action is one call by a caller.  The caller's tensors are the first *)
(* cells of the heap, the shared kernel_phase first of all; pre is the     *)
(* value of these cells when the call was entered.  Between two calls the  *)
(* caller releases what the last call left; kernel_phase stays.            *)
MaxChain == 2

VARIABLES heap, log, pre, result, call, ctx, hist

vars == <<heap, log, pre, result, call, ctx, hist>>

Call(op, d, layers, spacing, given) ==
    [op |-> op, d |-> d, layers |-> layers, spacing |-> spacing, given |-> given]

(* what save_for_backward keeps, with the trace of the forward pass that kept it *)
NoCtx == [kernel |-> NoRef, field |-> NoRef, defocus_list |-> NoRef, forward_log |-> <<>>]

WithLog(c, tr) ==
    [kernel |-> c.kernel, field |-> c.field, defocus_list |-> c.defocus_list,
     forward_log |-> tr]

Enter(cells) == [heap |-> cells, log |-> <<>>]

Mem == [heap |-> heap, log |-> log]

Init ==
    /\ heap \in { <<k>> : k \in generate_angular_spectrum_kernel }
    /\ log = <<>>
    /\ pre = heap
    /\ result = <<>>
    /\ call = Call("init", 0, 0, 0, FALSE)
    /\ ctx = NoCtx
    /\ hist = <<>>

(* the state a call leaves: res is what its handler returned on the store M0 *)
Return(M0, res, c, newctx, newhist, refs) ==
    /\ heap' = res.m.heap
    /\ log' = res.m.log
    /\ pre' = M0.heap
    /\ result' = refs
    /\ call' = c
    /\ ctx' = newctx
    /\ hist' = newhist

Idle == call.op = "init"

(* propagate(field, d) on a field of the caller *)
Propagate ==
    /\ Idle
    /\ \E f \in Fields, d \in Distances :
      \E M0 \in {Enter(<<heap[1], f>>)} :
        \E res \in {SingleSlicePropagation_forward(M0, Ref(2), d)} :
          Return(M0, res, Call("propagate", d, 0, 0, TRUE), NoCtx,
                 <<[d |-> d, x |-> f, y |-> Load(res.m, res.r)]>>, <<res.r>>)

(* propagate(field, d) on the field the previous propagation returned *)
PropagateAgain ==
    /\ call.op = "propagate"
    /\ Len(hist) < MaxChain
    /\ \E d \in Distances :
        \E M0 \in {Enter(<<heap[1], Load(Mem, result[1])>>)} :
          \E res \in {SingleSlicePropagation_forward(M0, Ref(2), d)} :
            Return(M0, res, Call("propagate", d, 0, 0, TRUE), NoCtx,
                   Append(hist, [d |-> d, x |-> M0.heap[2], y |-> Load(res.m, res.r)]),
                   <<res.r>>)

Multislice ==
    /\ Idle
    /\ \E layers \in 1..MaxLayers, spacing \in Spacings :
      \E obj \in Objs(layers) :
        \/ \E M0 \in {Enter(<<heap[1], obj>>)} :
             \E res \in {MultislicePropagation_forward(M0, layers, spacing, Ref(2), NoRef)} :
               Return(M0, res, Call("multislice", 0, layers, spacing, FALSE), NoCtx,
                      <<>>, <<res.r>>)
        \/ \E f \in Fields :
             \E M0 \in {Enter(<<heap[1], obj, f>>)} :
               \E res \in {MultislicePropagation_forward(M0, layers, spacing, Ref(2), Ref(3))} :
                 Return(M0, res, Call("multislice", 0, layers, spacing, TRUE), NoCtx,
                        <<>>, <<res.r>>)

DefocusForward ==
    /\ Idle
    /\ \E f \in Fields, dl \in DefocusLists :
      \E M0 \in {Enter(<<heap[1], f, dl>>)} :
        \E res \in {Defocus_forward(M0, Ref(2), kernel_phase, Ref(3))} :
          Return(M0, res, Call("defocus_forward", 0, 0, 0, TRUE), WithLog(res.ctx, res.m.log),
                 <<>>, <<res.r>>)

(* what the forward pass saved, as the first cells of the backward pass *)
Saved == [kernel |-> kernel_phase, field |-> Ref(2), defocus_list |-> Ref(3)]

(* backward on the context the preceding forward saved *)
DefocusBackward ==
    /\ call.op = "defocus_forward"
    /\ \E g \in GradOutputs(Count(Mem, ctx.defocus_list)) :
        \E M0 \in {Enter(<<heap[1], Load(Mem, ctx.field), Load(Mem, ctx.defocus_list), g>>)} :
          \E res \in {Defocus_backward(M0, Saved, Ref(4))} :
            Return(M0, res, Call("defocus_backward", 0, 0, 0, TRUE),
                   WithLog(Saved, ctx.forward_log), <<>>,
                   <<res.r, res.grad_defocus_list>>)

Conj ==
    /\ Idle
    /\ \E f \in Fields :
      \E M0 \in {Enter(<<heap[1], f>>)} :
        \E res \in {op_conj(M0, Ref(2))} :
          Return(M0, res, Call("conj", 0, 0, 0, TRUE), NoCtx, <<>>, <<res.r>>)

FftShift ==
    /\ Idle
    /\ \E f \in Fields, axes \in AxesLists :
      \E M0 \in {Enter(<<heap[1], f>>)} :
        \E res \in {op_fftshift(M0, Ref(2), axes)} :
          Return(M0, res, Call("fftshift", 0, 0, 0, TRUE), NoCtx, <<>>, <<res.r>>)

IfftShift ==
    /\ Idle
    /\ \E f \in Fields, axes \in AxesLists :
      \E M0 \in {Enter(<<heap[1], f>>)} :
        \E res \in {op_ifftshift(M0, Ref(2), axes)} :
          Return(M0, res, Call("ifftshift", 0, 0, 0, TRUE), NoCtx, <<>>, <<res.r>>)

R2C ==
    /\ Idle
    /\ \E x \in RealTensors :
      \E M0 \in {Enter(<<heap[1], x>>)} :
        \E res \in {op_r2c(M0, Ref(2))} :
          Return(M0, res, Call("r2c", 0, 0, 0, TRUE), NoCtx, <<>>, <<res.r>>)

Convolve ==
    /\ Idle
    /\ \E f \in Fields, k \in Fields, flag_inplace \in BOOLEAN :
      \E M0 \in {Enter(<<heap[1], f, k>>)} :
        \E res \in {op_convolve_kernel(M0, Ref(2), Ref(3), 2, flag_inplace)} :
          Return(M0, res, Call("convolve", 0, 0, 0, flag_inplace), NoCtx, <<>>, <<res.r>>)

(* the caller drops every tensor but the propagation object's kernel_phase *)
Release ==
    /\ ~Idle
    /\ heap' = <<heap[1]>>
    /\ log' = <<>>
    /\ pre' = <<heap[1]>>
    /\ result' = <<>>
    /\ call' = Call("init", 0, 0, 0, FALSE)
    /\ ctx' = NoCtx
    /\ hist' = <<>>

Next ==
    \/ Release
    \/ Propagate
    \/ PropagateAgain
    \/ Multislice
    \/ DefocusForward
    \/ DefocusBackward
    \/ Conj
    \/ FftShift
    \/ IfftShift
    \/ R2C
    \/ Convolve

Spec == Init /\ [][Next]_vars

(* ------------------------- reading a finished call --------------------- *)
(* the positions of a trace that hold a step of the given kind *)
Positions(tr, op) == {k \in 1..Len(tr) : tr[k].op = op}

(* the steps of a trace that are of one of the given kinds, in order *)
Project(tr, ops) == SelectSeq(tr, LAMBDA e : e.op \in ops)

(* whether the kernel of the offset defocus_idx was conjugated in a trace of *)
(* a Defocus pass: a conj between the start of the iteration and its first  *)
(* multiply                                                                  *)
Conjugated(tr, defocus_idx) ==
    \E start \in 1..Len(tr) :
       /\ tr[start] = Event("iter", defocus_idx)
       /\ \E c \in (start + 1)..Len(tr) :
            /\ tr[c].op = "conj"
            /\ \A k \in (start + 1)..c : tr[k].op \notin {"multiply", "iter"}

(* the value propagate(field, d) returns for the kernel phase kp *)
PropagateValue(kp, field, d) ==
    LET x == SingleSlicePropagation_forward(Enter(<<kp, field>>), Ref(2), d)
    IN  Load(x.m, x.r)

(* the arguments of the Defocus call of the current state *)
DefocusCall == call.op \in {"defocus_forward", "defocus_backward"}

DefocusCount == pre[3].shape[1]

DefocusOffset(defocus_idx) == pre[3].at[<<defocus_idx>>][1]

(* exp(|offset| * kernel_phase) of the current state's kernel_phase *)
OffsetKernel(offset) == exp(ScalarMul(Abs(offset), pre[1]))

(* ------------------------------- C1 ------------------------------------ *)
(* C1 as stated: Defocus.forward conjugates the kernel of an offset exactly *)
(* when the offset is positive, the opposite of single-slice propagation,   *)
(* which conjugates exactly when the distance is negative.                  *)
C1_ConjugatesPositive ==
    /\ call.op = "defocus_forward" =>
          \A idx \in 0..(DefocusCount - 1) :
             Conjugated(log, idx) <=> DefocusOffset(idx) > 0
    /\ (call.op = "propagate" /\ call.d # 0) =>
          (Positions(log, "conj") # {} <=> call.d < 0)

(* C1 amended: Defocus.forward conjugates the kernel of an offset exactly   *)
(* when the offset is not positive (negative or zero), and the slice of the *)
(* offset is the field convolved with that kernel; single-slice propagation *)
(* conjugates exactly when the distance is negative.  For non-zero offsets  *)
(* the two conventions are the same, not opposite.                          *)
C1_ConjugatesNonPositive ==
    /\ call.op = "defocus_forward" =>
          \A idx \in 0..(DefocusCount - 1) :
             /\ Conjugated(log, idx) <=> DefocusOffset(idx) <= 0
             /\ Select(Load(Mem, result[1]), 3, idx)
                  = convolve_kernel(pre[2],
                                    IF DefocusOffset(idx) > 0
                                    THEN OffsetKernel(DefocusOffset(idx))
                                    ELSE conj(OffsetKernel(DefocusOffset(idx))),
                                    2, FALSE)
    /\ (call.op = "propagate" /\ call.d # 0) =>
          (Positions(log, "conj") # {} <=> call.d < 0)

(* a forward pass over a positive and a negative offset whose kernels differ *)
(* from their conjugates                                                     *)
C1_Witness ==
    /\ call.op = "defocus_forward"
    /\ \E i, j \in 0..(DefocusCount - 1) :
         /\ DefocusOffset(i) > 0 /\ ~Conjugated(log, i)
         /\ DefocusOffset(j) < 0 /\ Conjugated(log, j)
         /\ Select(Load(Mem, result[1]), 3, i) # Select(Load(Mem, result[1]), 3, j)

(* ------------------------------- C2 ------------------------------------ *)
(* the multiply and propagation steps of a trace, in order *)
Steps(tr) == Project(tr, {"complex_mul", "propagate"})

RECURSIVE LayerSteps(_, _, _, _)
(* the steps of the layers layer_idx..layers-1: a multiply by the layer     *)
(* (none for layer 0 without an input field), then a step by spacing, or by *)
(* -distance_to_center for the last layer                                   *)
LayerSteps(layer_idx, layers, spacing, given) ==
    IF layer_idx >= layers THEN <<>>
    ELSE (IF layer_idx = 0 /\ ~given THEN <<>> ELSE <<Event("complex_mul", layer_idx)>>)
         \o <<Event("propagate",
                    IF layer_idx < layers - 1 THEN spacing
                    ELSE -1 * distance_to_center(layers, spacing))>>
         \o LayerSteps(layer_idx + 1, layers, spacing, given)

(* C2: for every layer count L >= 1 and spacing s, the forward pass does, in *)
(* layer order, a multiply by layer i (none for layer 0 without an input     *)
(* field) and one propagation step: by s for every layer but the last, by    *)
(* -distance_to_center for the last, which is never propagated by s.         *)
C2_StepOrder ==
    call.op = "multislice" =>
       Steps(log) = LayerSteps(0, call.layers, call.spacing, call.given)

(* ------------------------------- C3 ------------------------------------ *)
(* C3: through L identity layers, L >= 1, the forward pass gives the field  *)
(* that single-slice propagation by (L-1)*s and then by the recentering     *)
(* offset -(L/2 - 1/2)*s gives.                                             *)
C3_IdentityLayers ==
    (call.op = "multislice" /\ call.given /\ pre[2] = IdentityObj(call.layers)) =>
       Load(Mem, result[1])
         = PropagateValue(pre[1],
                          PropagateValue(pre[1], pre[3], (call.layers - 1) * call.spacing),
                          -1 * distance_to_center(call.layers, call.spacing))

(* ------------------------------- C4 ------------------------------------ *)
(* a propagation by d # 0 followed by one by -d on what the first returned *)
RoundTrip ==
    /\ call.op = "propagate"
    /\ Len(hist) = 2
    /\ hist[1].d # 0
    /\ hist[2].d = -1 * hist[1].d

(* the kernel phase has no real part at any frequency *)
Imaginary(kp) == \A i \in DOMAIN kp.at : i[Len(i)] = 0 => kp.at[i] = R(0)

(* C4 as stated: propagating by +d and then by -d returns the original *)
(* field, for every kernel phase the generator supplies.               *)
C4_RoundTrip == RoundTrip => hist[2].y = hist[1].x

(* C4 amended: the round trip returns the original field when the kernel   *)
(* phase has no real part at any frequency; in general it multiplies the   *)
(* spectrum of the field by exp(2*|d|*Re(kernel_phase)), which is not 1    *)
(* where the phase has a real part.                                        *)
C4_RoundTripImaginary ==
    RoundTrip =>
       /\ Imaginary(pre[1]) => hist[2].y = hist[1].x
       /\ hist[2].y = convolve_kernel(hist[1].x,
                                      exp(ScalarMul(2 * Abs(hist[1].d), r2c(real(pre[1])))),
                                      2, FALSE)

(* a round trip under an imaginary kernel phase whose first step changed *)
(* the field                                                             *)
C4_Witness ==
    /\ RoundTrip
    /\ Imaginary(pre[1])
    /\ hist[1].y # hist[1].x
    /\ hist[2].y = hist[1].x

(* ------------------------------- C6 ------------------------------------ *)
(* the caller's tensors hold the values they held when the call was entered *)
InputsKept == \A a \in 1..Len(pre) : heap[a] = pre[a]

(* every in-place write of the call went to storage the call allocated *)
WritesFresh == \A k \in Positions(log, "store") : log[k].arg > Len(pre)

StepsOf(tr, op, arg) == {k \in Positions(tr, op) : tr[k].arg = arg}

(* C8: for N >= 1 offsets Defocus.forward transforms the field once, before *)
(* the first offset, multiplies once per offset, inverse-transforms every   *)
(* offset's product once, and returns the N fields in the order of the      *)
(* defocus list: slice idx is the inverse transform of the transformed      *)
(* field times the kernel of offset idx.                                    *)
C8_OneTransform ==
    call.op = "defocus_forward" =>
       /\ DefocusCount >= 1
       /\ Positions(log, "fft") = {1}
       /\ log[1].arg = 1
       /\ Positions(log, "ifft") = {Len(log)}
       /\ log[Len(log)].arg = DefocusCount
       /\ Project(log, {"iter"}) = [k \in 1..DefocusCount |-> Event("iter", k - 1)]
       /\ \A idx \in 0..(DefocusCount - 1) :
             Cardinality(StepsOf(log, "multiply", idx)) = 1
       /\ Load(Mem, result[1]).shape
             = <<FieldShape[1], FieldShape[2], DefocusCount, 2>>
       /\ \A idx \in 0..(DefocusCount - 1) :
             Select(Load(Mem, result[1]), 3, idx)
               = torch_ifft(multiply_complex(
                                torch_fft(pre[2], 2),
                                IF DefocusOffset(idx) > 0
                                THEN OffsetKernel(DefocusOffset(idx))
                                ELSE conj(OffsetKernel(DefocusOffset(idx)))), 2)

(* a forward pass over two different offsets that returned two different *)
(* fields                                                                *)
C8_Witness ==
    /\ call.op = "defocus_forward"
    /\ DefocusCount = 2
    /\ DefocusOffset(0) # DefocusOffset(1)
    /\ Select(Load(Mem, result[1]), 3, 0) # Select(Load(Mem, result[1]), 3, 1)
    /\ Cardinality(Positions(log, "fft")) = 1

(* ------------------------------- C10 ----------------------------------- *)
(* the kernel the backward pass applies for an offset *)
BackwardKernel(offset) ==
    IF offset < 0 THEN OffsetKernel(offset) ELSE conj(OffsetKernel(offset))

(* the incoming gradient of the offset defocus_idx, convolved with the *)
(* backward kernel of the offset                                       *)
BackwardField(defocus_idx) ==
    convolve_kernel(Select(pre[4], 3, defocus_idx),
                    BackwardKernel(DefocusOffset(defocus_idx)), 2, FALSE)

RECURSIVE BackwardSum(_)
(* the sum of the backward fields of the first n offsets *)
BackwardSum(n) ==
    IF n = 1 THEN BackwardField(0)
    ELSE Zip(BackwardSum(n - 1), BackwardField(n - 1), RAdd)

(* C10 as stated: for every offset, zero included, the backward pass     *)
(* conjugates the kernel exactly when the forward pass did not.          *)
C10_BackwardInverse ==
    call.op = "defocus_backward" =>
       \A idx \in 0..(DefocusCount - 1) :
          Conjugated(log, idx) <=> ~Conjugated(ctx.forward_log, idx)

(* C10 amended: for every non-zero offset the backward pass conjugates the *)
(* kernel exactly when the forward pass did not; for offset zero both      *)
(* passes conjugate it (the kernel is then 1 at every frequency).  The     *)
(* gradient returned is the sum over the offsets of the incoming gradient  *)
(* of the offset convolved with the backward kernel.                       *)
C10_BackwardInverseNonZero ==
    call.op = "defocus_backward" =>
       /\ \A idx \in 0..(DefocusCount - 1) :
             /\ DefocusOffset(idx) # 0 =>
                   (Conjugated(log, idx) <=> ~Conjugated(ctx.forward_log, idx))
             /\ DefocusOffset(idx) = 0 =>
                   /\ Conjugated(log, idx) /\ Conjugated(ctx.forward_log, idx)
                   /\ OffsetKernel(0) = conj(OffsetKernel(0))
       /\ Load(Mem, result[1]) = BackwardSum(DefocusCount)

(* a backward pass over a positive and a negative offset *)
C10_Witness ==
    /\ call.op = "defocus_backward"
    /\ \E i, j \in 0..(DefocusCount - 1) :
         /\ DefocusOffset(i) > 0
         /\ Conjugated(log, i) /\ ~Conjugated(ctx.forward_log, i)
         /\ DefocusOffset(j) < 0
         /\ ~Conjugated(log, j) /\ Conjugated(ctx.forward_log, j)

(* ------------------- the operators called on their own ----------------- *)
(* One action is one call of one operator of operators.py on tensors the   *)
(* caller built: call.op names the operator, pre holds its tensor          *)
(* arguments, result what it returned, an error for a call that aborted.   *)
(* No storage is shared between these calls: heap, log and ctx stay empty. *)
MaxPart == 1

Parts == (-MaxPart)..MaxPart

(* the complex number a + b*i, a tensor of shape (2) *)
Number(a, b) == Tensor(<<2>>, LAMBDA i : R(IF i[1] = 0 THEN a ELSE b))

Numbers == { Number(a, b) : a \in Parts, b \in Parts }

(* the numbers on the coordinate axes: their modulus and angle are exact *)
AxisNumbers == { Number(a, b) : a \in Parts, b \in {0} } \cup
               { Number(a, b) : a \in {0}, b \in Parts }

(* tensors whose trailing axis has size 1 or 3 *)
Malformed ==
    { Tensor(<<k>>, LAMBDA i : R(IF i[1] = c THEN v ELSE 0)) :
         k \in {1, 3}, c \in {0, 1}, v \in Parts \ {0} }

(* torch.stack((z, w)): a batch of two tensors of one shape *)
Rows(z, w) ==
    Tensor(<<2>> \o z.shape, LAMBDA i : IF i[1] = 0 THEN z.at[Tail(i)] ELSE w.at[Tail(i)])

SecondRows == { Number(1, -1), Number(0, 1) }

Wides == { Rows(z, w) : z \in Numbers, w \in SecondRows }

MalformedWides == { Rows(z, z) : z \in Malformed }

(* operand pairs of multiply and divide: same rank, or one leading axis more *)
Pairs ==
    (Wides \X Numbers) \cup (Numbers \X Wides) \cup (Numbers \X Numbers)
      \cup (Wides \X { Rows(w, w) : w \in SecondRows })

(* incoming gradients of the shape of the broadcast output *)
GradsOf(input1, input2) ==
    IF Rank(input1) = 1 /\ Rank(input2) = 1
    THEN { Number(1, 0), Number(1, 2) }
    ELSE { Rows(Number(1, 0), Number(1, 0)), Rows(Number(1, 2), Number(-1, 1)) }

Exponents == {1, 2}

InitOps ==
    /\ heap = <<>>
    /\ log = <<>>
    /\ pre = <<>>
    /\ result = <<>>
    /\ call = Call("init", 0, 0, 0, FALSE)
    /\ ctx = NoCtx
    /\ hist = <<>>

(* the state the call op(args) leaves when it returned out *)
Returned(op, a, args, out, newhist) ==
    /\ pre' = args
    /\ result' = out
    /\ call' = Call(op, a, 0, 0, TRUE)
    /\ hist' = newhist
    /\ UNCHANGED <<heap, log, ctx>>

CallConj ==
    /\ Idle
    /\ \E t \in Numbers \cup Malformed : Returned("conj", 0, <<t>>, <<conj(t)>>, <<>>)

CallAngle ==
    /\ Idle
    /\ \E t \in AxisNumbers \cup Malformed : Returned("angle", 0, <<t>>, <<angle(t)>>, <<>>)

CallExponentiate ==
    /\ Idle
    /\ \E t \in AxisNumbers \cup Malformed, a \in Exponents :
         Returned("exponentiate", a, <<t>>, <<exponentiate(t, a)>>, <<>>)

CallExp ==
    /\ Idle
    /\ \E t \in Numbers \cup Malformed : Returned("exp", 0, <<t>>, <<exp(t)>>, <<>>)

CallMultiply ==
    /\ Idle
    /\ \E t1 \in Numbers \cup Malformed, t2 \in Numbers \cup Malformed :
         Returned("multiply_complex", 0, <<t1, t2>>, <<multiply_complex(t1, t2)>>, <<>>)

CallDivide ==
    /\ Idle
    /\ \E t1 \in Numbers \cup Malformed, t2 \in Numbers \cup Malformed :
         Returned("division_complex", 0, <<t1, t2>>, <<division_complex(t1, t2)>>, <<>>)

(* divide(multiply(z1, z2), z2): the product just returned, by its second factor *)
DivideProduct ==
    /\ call.op = "multiply_complex"
    /\ ~IsError(result[1])
    /\ \E out \in {division_complex(result[1], pre[2])} :
         Returned("division_complex", 0, <<result[1], pre[2]>>, <<out>>,
                  <<[d |-> 0, x |-> pre[1], y |-> out]>>)

CallAbs ==
    /\ Idle
    /\ \E t \in AxisNumbers \cup Malformed : Returned("abs", 0, <<t>>, <<abs(t)>>, <<>>)

ApplyComplexConj ==
    /\ Idle
    /\ \E t \in Numbers \cup Malformed :
         Returned("ComplexConj", 0, <<t>>, <<ComplexConj_forward(t)>>, <<>>)

ApplyComplexMul ==
    /\ Idle
    /\ \E t1 \in Numbers \cup Malformed, t2 \in Numbers \cup Malformed :
         Returned("ComplexMul", 0, <<t1, t2>>, <<ComplexMul_forward(t1, t2)>>, <<>>)

ApplyComplexDiv ==
    /\ Idle
    /\ \E t1 \in Numbers \cup Malformed, t2 \in Numbers \cup Malformed :
         Returned("ComplexDiv", 0, <<t1, t2>>, <<ComplexDiv_forward(t1, t2)>>, <<>>)

ApplyComplexAbs ==
    /\ Idle
    /\ \E t \in AxisNumbers \cup Malformed :
         Returned("ComplexAbs", 0, <<t>>, <<ComplexAbs_forward(t)>>, <<>>)

ApplyComplexAbs2 ==
    /\ Idle
    /\ \E t \in Numbers \cup Malformed :
         Returned("ComplexAbs2", 0, <<t>>, <<ComplexAbs2_forward(t)>>, <<>>)

ApplyComplexExp ==
    /\ Idle
    /\ \E t \in Numbers \cup Malformed :
         Returned("ComplexExp", 0, <<t>>, <<ComplexExp_forward(t)>>, <<>>)

(* a convolution along one axis of length 2 *)
ApplyComplexConv ==
    /\ Idle
    /\ \E t \in Wides \cup MalformedWides, k \in Wides \cup MalformedWides :
         Returned("ComplexConv", 0, <<t, k>>, <<ComplexConv_forward(t, k, 1, FALSE)>>, <<>>)

BackwardComplexMul ==
    /\ Idle
    /\ \E p \in Pairs :
         \E g \in GradsOf(p[1], p[2]) :
            Returned("ComplexMul.backward", 0, <<p[1], p[2], g>>,
                     ComplexMul_backward(p[1], p[2], g), <<>>)

BackwardComplexDiv ==
    /\ Idle
    /\ \E p \in Pairs :
         \E g \in GradsOf(p[1], p[2]) :
            Returned("ComplexDiv.backward", 0, <<p[1], p[2], g>>,
                     ComplexDiv_backward(p[1], p[2], g), <<>>)

(* the caller drops the tensors of the last call *)
ReleaseOps ==
    /\ ~Idle
    /\ pre' = <<>>
    /\ result' = <<>>
    /\ call' = Call("init", 0, 0, 0, FALSE)
    /\ hist' = <<>>
    /\ UNCHANGED <<heap, log, ctx>>

NextOps ==
    \/ ReleaseOps
    \/ CallConj
    \/ CallAngle
    \/ CallExponentiate
    \/ CallExp
    \/ CallMultiply
    \/ CallDivide
    \/ DivideProduct
    \/ CallAbs
    \/ ApplyComplexConj
    \/ ApplyComplexMul
    \/ ApplyComplexDiv
    \/ ApplyComplexAbs
    \/ ApplyComplexAbs2
    \/ ApplyComplexExp
    \/ ApplyComplexConv
    \/ BackwardComplexMul
    \/ BackwardComplexDiv

SpecOps == InitOps /\ [][NextOps]_vars

(* ------------------------------- C5 ------------------------------------ *)
ComplexOperators ==
    {"conj", "angle", "exponentiate", "exp", "multiply_complex", "division_complex", "abs",
     "ComplexConj", "ComplexMul", "ComplexDiv", "ComplexAbs", "ComplexAbs2", "ComplexExp",
     "ComplexConv"}

(* an argument of the call has a trailing axis whose size is not 2 *)
MalformedCall == \E a \in 1..Len(pre) : Last(pre[a]) # 2

(* C5: every complex operator called with an input whose trailing axis is *)
(* not of size 2 aborts and returns no result.                            *)
C5_MalformedAborts ==
    (call.op \in ComplexOperators /\ MalformedCall) => IsError(result[1])

(* ------------------------------- C7 ------------------------------------ *)
BackwardCall == call.op \in {"ComplexMul.backward", "ComplexDiv.backward"}

(* the backward rule the call applied *)
BackwardRule(input1, input2, grad_output) ==
    IF call.op = "ComplexMul.backward" THEN ComplexMul_backward(input1, input2, grad_output)
    ELSE ComplexDiv_backward(input1, input2, grad_output)

(* wide has exactly one leading axis more than narrow *)
OneMoreLeadingAxis(wide, narrow) == wide.shape = <<wide.shape[1]>> \o narrow.shape

(* the gradients of the batch entry n, for the operand at position wide (1 *)
(* or 2) carrying the batch axis                                           *)
EntryGradients(wide, n) ==
    BackwardRule(IF wide = 1 THEN Select(pre[1], 1, n) ELSE pre[1],
                 IF wide = 2 THEN Select(pre[2], 1, n) ELSE pre[2],
                 Select(pre[3], 1, n))

RECURSIVE EntrySum(_, _)
(* the sum over the batch entries 0..n of the narrow operand's gradient *)
EntrySum(wide, n) ==
    IF n = 0 THEN EntryGradients(wide, 0)[3 - wide]
    ELSE Zip(EntrySum(wide, n - 1), EntryGradients(wide, n)[3 - wide], RAdd)

(* the gradients when the operand at position wide has one leading axis more *)
Reduced(wide) ==
    LET narrow == 3 - wide
    IN  /\ result[narrow].shape = pre[narrow].shape
        /\ result[narrow] = EntrySum(wide, pre[wide].shape[1] - 1)
        /\ result[wide].shape = pre[wide].shape
        /\ \A n \in 0..(pre[wide].shape[1] - 1) :
              Select(result[wide], 1, n) = EntryGradients(wide, n)[wide]

(* C7: in the backward rules of multiply and divide, when one operand has   *)
(* exactly one more leading axis than the other, the gradient of the        *)
(* narrower operand is the full gradient summed over axis 0 and has the     *)
(* narrower operand's shape, and the gradient of the wider operand is not   *)
(* reduced; when both operands have the same rank neither is reduced.       *)
C7_BroadcastReduction ==
    BackwardCall =>
       /\ OneMoreLeadingAxis(pre[1], pre[2]) => Reduced(1)
       /\ OneMoreLeadingAxis(pre[2], pre[1]) => Reduced(2)
       /\ Rank(pre[1]) = Rank(pre[2]) =>
             /\ result[1].shape = pre[3].shape
             /\ result[2].shape = pre[3].shape

(* a backward call of divide whose second operand is the narrower one and *)
(* whose gradient is a sum of two different entries                       *)
C7_Witness ==
    /\ call.op = "ComplexDiv.backward"
    /\ OneMoreLeadingAxis(pre[1], pre[2])
    /\ result[2].shape = pre[2].shape
    /\ EntryGradients(1, 0)[2] # EntryGradients(1, 1)[2]
    /\ result[2] # EntryGradients(1, 0)[2]
    /\ \A i \in DOMAIN result[2].at : IsFinite(result[2].at[i])

(* ------------------------------- C9 ------------------------------------ *)
(* the real and the imaginary part of a number *)
Re(z) == z.at[<<0>>]

Im(z) == z.at[<<1>>]

(* |z|^2 *)
Norm2(z) == RAdd(RMul(Re(z), Re(z)), RMul(Im(z), Im(z)))

(* a product of two numbers, divided by its second factor, which is not 0 *)
QuotientOfProduct ==
    /\ call.op = "division_complex"
    /\ hist # <<>>
    /\ hist[1].x.shape = <<2>>
    /\ pre[2].shape = <<2>>
    /\ Norm2(pre[2]) # R(0)

(* C9: for all complex z1 and all z2 with |z2| > 0, divide(multiply(z1, z2), *)
(* z2) = z1: the numerator of the division is z1 scaled by |z2|^2 in the     *)
(* real and in the imaginary channel.                                        *)
C9_DivideProduct ==
    QuotientOfProduct =>
       /\ result[1] = hist[1].x
       /\ RAdd(RMul(Re(pre[1]), Re(pre[2])), RMul(Im(pre[1]), Im(pre[2])))
            = RMul(Re(hist[1].x), Norm2(pre[2]))
       /\ RSub(RMul(Im(pre[1]), Re(pre[2])), RMul(Re(pre[1]), Im(pre[2])))
            = RMul(Im(hist[1].x), Norm2(pre[2]))

(* a quotient of a product by a factor with a real and an imaginary part, *)
(* of modulus other than 1                                                *)
C9_Witness ==
    /\ QuotientOfProduct
    /\ Re(pre[2]) # R(0) /\ Im(pre[2]) # R(0)
    /\ Re(hist[1].x) # R(0) /\ Im(hist[1].x) # R(0)
    /\ pre[1] # hist[1].x
    /\ result[1] = hist[1].x

(* ---------------------- two propagation objects ------------------------ *)
(* Two objects of one class are constructed, each with its own arguments,  *)
(* and the same call is made on both with the same tensors.  heap holds    *)
(* the kernel_phase of the first and of the second object, log the two     *)
(* requests made to the kernel generator, hist the arguments the two       *)
(* constructors were given, pre the tensors of the call and result what    *)
(* the first and the second object returned.                               *)

(* numerical_aperture = None *)
NoAperture == <<>>

Apertures == {NoAperture, <<1>>}

PixelSizes == {1}

Wavelengths == {1, 2}

(* the arguments of one call of generate_angular_spectrum_kernel *)
Request(shape, pixel_size, wavelength, numerical_aperture, flag_band_limited) ==
    [shape |-> shape, pixel_size |-> pixel_size, wavelength |-> wavelength,
     numerical_aperture |-> numerical_aperture, flag_band_limited |-> flag_band_limited]

(* the kernel the generator returns for a request: the phase of the highest *)
(* frequency is imaginary when the wavelength does not exceed the pixel     *)
(* size and real (evanescent) otherwise; with a band limit and an aperture  *)
(* given, the phase beyond the aperture is cut to 0                         *)
KernelOf(request) ==
    LET highest == IF request.wavelength > request.pixel_size THEN <<-1, 0>> ELSE <<0, 3>>
        limited == request.flag_band_limited /\ request.numerical_aperture # NoAperture
        profile == <<<<0, 1>>, <<0, 2>>, IF limited THEN <<0, 0>> ELSE highest>>
    IN  Tensor(Append(request.shape, 2),
               LAMBDA i : R(profile[i[1] + i[2] + 1][i[3] + 1]))

(* a constructor that hands its own arguments on to the generator *)
SingleSlicePropagation_init_forwarding(shape, pixel_size, wavelength, numerical_aperture, flag_band_limited) ==
    Request(shape, pixel_size, wavelength, numerical_aperture, flag_band_limited)

(* SingleSlicePropagation.__init__: the request it makes to the generator *)
SingleSlicePropagation_init(shape, pixel_size, wavelength, numerical_aperture, flag_band_limited) ==
    Request(shape, pixel_size, wavelength, NoAperture, FALSE)

(* MultislicePropagation.__init__: the request its self.propagate makes; *)
(* shape is shape[0:2] and pixel_size is voxel_size[0]                   *)
MultislicePropagation_init(shape, pixel_size, wavelength, numerical_aperture) ==
    SingleSlicePropagation_init(shape, pixel_size, wavelength, NoAperture, FALSE)

(* the arguments a constructor was given *)
Arguments(pixel_size, wavelength, numerical_aperture, flag_band_limited) ==
    [pixel_size |-> pixel_size, wavelength |-> wavelength,
     numerical_aperture |-> numerical_aperture, flag_band_limited |-> flag_band_limited]

ArgumentSets ==
    { Arguments(p, w, na, b) :
         p \in PixelSizes, w \in Wavelengths, na \in Apertures, b \in BOOLEAN }

Classes == {"SingleSlicePropagation", "MultislicePropagation"}

(* the request the constructor of the class makes for the arguments a *)
Constructed(class, a) ==
    IF class = "SingleSlicePropagation"
    THEN SingleSlicePropagation_init(FieldShape, a.pixel_size, a.wavelength,
                                     a.numerical_aperture, a.flag_band_limited)
    ELSE MultislicePropagation_init(FieldShape, a.pixel_size, a.wavelength,
                                    a.numerical_aperture)

InitPair ==
    \E class \in Classes, a1 \in ArgumentSets, a2 \in ArgumentSets :
       /\ hist = <<a1, a2>>
       /\ log = <<Event("generate", Constructed(class, a1)),
                  Event("generate", Constructed(class, a2))>>
       /\ heap = <<KernelOf(log[1].arg), KernelOf(log[2].arg)>>
       /\ pre = <<>>
       /\ result = <<>>
       /\ call = Call("init", 0, 0, 0, class = "MultislicePropagation")
       /\ ctx = NoCtx

(* the value forward(obj, field_in) returns for the kernel phase kp *)
MultisliceValue(kp, layers, spacing, obj, field) ==
    LET x == MultislicePropagation_forward(Enter(<<kp, obj, field>>), layers, spacing,
                                           Ref(2), Ref(3))
    IN  Load(x.m, x.r)

(* the object volumes given to the two multislice objects *)
PairObjs == { ObjOf(<<"mask">>), ObjOf(<<"mask", "identity">>) }

(* propagate(field, d) on the two single-slice objects *)
PairPropagate ==
    /\ Idle
    /\ ~call.given
    /\ \E f \in Fields, d \in Distances :
         /\ pre' = <<f>>
         /\ result' = <<PropagateValue(heap[1], f, d), PropagateValue(heap[2], f, d)>>
         /\ call' = Call("propagate", d, 0, 0, call.given)
         /\ UNCHANGED <<heap, log, ctx, hist>>

(* forward(obj, field_in) on the two multislice objects *)
PairMultislice ==
    /\ Idle
    /\ call.given
    /\ \E f \in Fields, obj \in PairObjs, spacing \in Spacings :
         /\ pre' = <<obj, f>>
         /\ result' = <<MultisliceValue(heap[1], obj.shape[3], spacing, obj, f),
                        MultisliceValue(heap[2], obj.shape[3], spacing, obj, f)>>
         /\ call' = Call("multislice", 0, obj.shape[3], spacing, call.given)
         /\ UNCHANGED <<heap, log, ctx, hist>>

(* the caller drops the tensors of the call; the two objects stay *)
ReleasePair ==
    /\ ~Idle
    /\ pre' = <<>>
    /\ result' = <<>>
    /\ call' = Call("init", 0, 0, 0, call.given)
    /\ UNCHANGED <<heap, log, ctx, hist>>

NextPair ==
    \/ ReleasePair
    \/ PairPropagate
    \/ PairMultislice

SpecPair == InitPair /\ [][NextPair]_vars

(* ------------------------------- C11 ----------------------------------- *)
(* the two constructors were given the same pixel size and wavelength (the *)
(* shape is the same by construction)                                      *)
SameOptics ==
    /\ hist[1].pixel_size = hist[2].pixel_size
    /\ hist[1].wavelength = hist[2].wavelength

(* C11: the kernel_phase of a SingleSlicePropagation or MultislicePropagation *)
(* object does not depend on the numerical_aperture / flag_band_limited given *)
(* to its constructor: the request to the generator always carries            *)
(* numerical_aperture = None and band limiting off, so two objects built with *)
(* the same shape, pixel size and wavelength hold the same kernel and return  *)
(* identical outputs for identical inputs.                                    *)
C11_ApertureIgnored ==
    /\ \A k \in 1..2 :
          /\ log[k].arg.numerical_aperture = NoAperture
          /\ ~log[k].arg.flag_band_limited
          /\ log[k].arg.pixel_size = hist[k].pixel_size
          /\ log[k].arg.wavelength = hist[k].wavelength
    /\ SameOptics =>
          /\ log[1] = log[2]
          /\ heap[1] = heap[2]
          /\ ~Idle => result[1] = result[2]

(* two objects of the same optics, one constructed with an aperture and the *)
(* band limit on, the other with neither, after a call that changed the     *)
(* field                                                                    *)
C11_Witness ==
    /\ SameOptics
    /\ hist[1].numerical_aperture # NoAperture /\ hist[1].flag_band_limited
    /\ hist[2].numerical_aperture = NoAperture /\ ~hist[2].flag_band_limited
    /\ KernelOf(Request(FieldShape, hist[1].pixel_size, hist[1].wavelength,
                        hist[1].numerical_aperture, hist[1].flag_band_limited))
         # heap[1]
    /\ call.op = "multislice"
    /\ result[1] # pre[2]
    /\ result[1] = result[2]

====
